---- MODULE Spec2Model ----
(***************************************************************************)
(* A model of the tutorial scripts of funtohard-code-examples:             *)
(*   - python/libraries/Flask.py: the session routes (login, profile,      *)
(*     logout, the require_auth decorator), the users_db REST routes, and  *)
(*     a create_user and a delete_user request served by two threads;      *)
(*   - python/libraries/Requests.py: RateLimitedClient, the top-level      *)
(*     script with its try/except blocks, make_request_with_error_handling *)
(*     and the session of create_session_with_retries.                     *)
(* Each part has its own specification (SpecSession, SpecUsers, SpecRace,  *)
(* SpecRate, SpecScript, SpecErrors, SpecRetry); a specification leaves    *)
(* the variables of the other parts at their initial values.               *)
(***************************************************************************)
EXTENDS Integers, Sequences, FiniteSets, TLC

VARIABLES
    session,        \* Flask.py: flask.session, the per-client cookie dict
    now,            \* Flask.py: the last value read from datetime.now()
    request,        \* Flask.py: the request being answered (method, path, form)
    response,       \* Flask.py: what the view function returned for it
    users_db,       \* Flask.py: the global list of user dicts
    api_request,    \* Flask.py: the /api/users request being answered
    api_response,   \* Flask.py: what the /api/users view returned for it
    clock,              \* Requests.py: time.time()
    min_interval,       \* Requests.py: RateLimitedClient.min_interval
    last_request_time,  \* Requests.py: RateLimitedClient.last_request_time
    rate_pc,            \* Requests.py: where the caller is in make_request
    sleep_time,         \* Requests.py: make_request's local sleep_time
    sent,               \* Requests.py: the times at which requests.get was entered
    section,            \* Requests.py: the numbered section the script is in
    call,               \* Requests.py: the HTTP call of that section that is next
    errors,             \* Requests.py: how many error messages the script printed
    ended,              \* Requests.py: "" while the script runs, then how it ended
    url,                \* Requests.py: the url make_request_with_error_handling got
    get_outcome,        \* Requests.py: what requests.get(url, timeout=5) did
    result,             \* Requests.py: what make_request_with_error_handling did
    retry_session,      \* Requests.py: what create_session_with_retries() gave
    retry_method,       \* Requests.py: the method of the request sent through it
    remaining,          \* Requests.py: the retries the Retry object has left
    attempts,           \* Requests.py: how often the request went to the server
    answers,            \* Requests.py: what came back for each attempt so far
    retry_pc,           \* Requests.py: where the call through the session is
    raised,             \* Requests.py: the exception the call ended with, or ""
    create_pc,      \* Flask.py: where the thread serving a create_user request is
    create_new_user,  \* Flask.py: create_user's local new_user
    list_ref,       \* Flask.py: the list object create_user loaded to append to
    detached,       \* Flask.py: the list object users_db named before a rebinding
    acked,          \* Flask.py: the ids of the users answered with 201
    delete_pc,      \* Flask.py: where the thread serving a delete_user request is
    delete_id,      \* Flask.py: delete_user's user_id
    filtered,       \* Flask.py: the list delete_user built and has not bound yet
    deleted         \* Flask.py: the ids a delete_user request named

sessionVars == <<session, now, request, response>>
usersVars == <<users_db, api_request, api_response>>
errVars == <<url, get_outcome, result>>
retryVars == <<retry_session, retry_method, remaining, attempts, answers, retry_pc, raised>>
raceVars ==
    <<create_pc, create_new_user, list_ref, detached, acked, delete_pc, delete_id, filtered, deleted>>
rateVars == <<clock, min_interval, last_request_time, rate_pc, sleep_time, sent>>
scriptVars == <<section, call, errors, ended>>
vars == <<sessionVars, usersVars, rateVars, scriptVars, errVars, retryVars, raceVars>>

(***************************************************************************)
(* Bounds of the model.                                                    *)
(***************************************************************************)
MaxClock == 2       \* datetime.now() ranges over 0..MaxClock
MaxFlashes == 3     \* at most this many flashed messages pile up in the session
MaxId == 4          \* create_user is not followed once the next id would pass MaxId
MaxTime == 6        \* time.time() ranges over 0..MaxTime
MaxSent == 3        \* make_request is entered until this many requests went out

(***************************************************************************)
(* Constants of the program.                                               *)
(***************************************************************************)
LastSection == 18   \* Requests.py: the sections are numbered 1..18

(***************************************************************************)
(* Python dict helpers: a dict is a function from its keys.                *)
(***************************************************************************)
EmptyDict == [k \in {} |-> 0]

DictSet(d, k, v) == [x \in DOMAIN d \cup {k} |-> IF x = k THEN v ELSE d[x]]

DictPop(d, k) == [x \in DOMAIN d \ {k} |-> d[x]]

\* d.get(k, default)
DictGet(d, k, default) == IF k \in DOMAIN d THEN d[k] ELSE default

(***************************************************************************)
(* Responses.  Every view returns one of: a JSON error with a status, a    *)
(* redirect (302) to a route, or a rendered page naming the user it shows. *)
(***************************************************************************)
Resp(status, location, error, page, user, login_time) ==
    [status |-> status, location |-> location, error |-> error,
     page |-> page, user |-> user, login_time |-> login_time]

NoResponse == Resp(0, "", "", "", "", "")

redirect(route) == Resp(302, route, "", "", "", "")

jsonify_error(message, status) == Resp(status, "", message, "", "", "")

html(page, user, login_time) == Resp(200, "", "", page, user, login_time)

(***************************************************************************)
(* flask.flash(message, category): appends (category, message) to the list *)
(* kept in the session under '_flashes'.  No view of Flask.py ever calls   *)
(* get_flashed_messages, so the list is never emptied.                     *)
(***************************************************************************)
flashes(s) == IF "_flashes" \in DOMAIN s THEN s["_flashes"] ELSE << >>

flash(s, message, category) ==
    DictSet(s, "_flashes", Append(flashes(s), <<category, message>>))

(***************************************************************************)
(* request.form: the submitted form fields.  request.form.get(k) is None   *)
(* when k is absent; `if username and password` needs both present and     *)
(* non-empty.                                                              *)
(***************************************************************************)
FormFields == {"username", "password"}
FieldValues == {"", "alice", "bob"}
Forms == UNION {[S -> FieldValues] : S \in SUBSET FormFields}

\* a test that takes an empty field for a given one
Present(form, k) == k \in DOMAIN form

Truthy(form, k) == k \in DOMAIN form /\ form[k] # ""

(***************************************************************************)
(* The views.  Each returns the session it leaves and its response.        *)
(***************************************************************************)
Out(s, r) == [session |-> s, response |-> r]

\* login(), request.method == 'GET'
login_get(s) ==
    IF "username" \in DOMAIN s
    THEN Out(s, html("already_logged_in", s["username"], ""))
    ELSE Out(s, html("login_form", "", ""))

\* a login that forgets to record the login time
login_post_no_time(s, form, t) ==
    IF Truthy(form, "username") /\ Truthy(form, "password")
    THEN Out(flash(DictSet(s, "username", form["username"]),
                   "Login successful!", "success"),
             redirect("profile"))
    ELSE Out(flash(s, "Invalid credentials!", "error"), redirect("login"))

\* login(), request.method == 'POST'; t is datetime.now()
login_post(s, form, t) ==
    IF Truthy(form, "username") /\ Truthy(form, "password")
    THEN Out(flash(DictSet(DictSet(s, "username", form["username"]),
                           "login_time", t),
                   "Login successful!", "success"),
             redirect("profile"))
    ELSE Out(flash(s, "Invalid credentials!", "error"), redirect("login"))

\* session.get('login_time', 'Unknown')
session_login_time(s) ==
    IF "login_time" \in DOMAIN s THEN ToString(s["login_time"]) ELSE "Unknown"

\* a profile view without its login check
profile_unchecked(s) ==
    Out(s, html("profile", DictGet(s, "username", ""), session_login_time(s)))

profile(s) ==
    IF "username" \notin DOMAIN s
    THEN Out(flash(s, "Please log in first!", "error"), redirect("login"))
    ELSE Out(s, html("profile", s["username"], session_login_time(s)))

\* a logout that pops 'username' alone
logout_username_only(s) ==
    Out(flash(DictPop(s, "username"), "You have been logged out!", "info"),
        redirect("home"))

logout(s) ==
    Out(flash(DictPop(DictPop(s, "username"), "login_time"),
              "You have been logged out!", "info"),
        redirect("home"))

protected_endpoint(s) == Out(s, html("protected", s["username"], ""))

\* a decorator that answers 403 where 401 is meant
require_auth_forbidden(s) ==
    IF "username" \notin DOMAIN s
    THEN Out(s, jsonify_error("Authentication required", 403))
    ELSE protected_endpoint(s)

\* require_auth(f): the wrapper that runs before the wrapped view
require_auth(s) ==
    IF "username" \notin DOMAIN s
    THEN Out(s, jsonify_error("Authentication required", 401))
    ELSE protected_endpoint(s)

(***************************************************************************)
(* Requests of the session routes.                                         *)
(***************************************************************************)
Req(method, path, form) == [method |-> method, path |-> path, form |-> form]

NoRequest == Req("", "", EmptyDict)

\* before_request(): every request reads datetime.now(); the clock never
\* runs backwards.
Serve(req, out, t) ==
    /\ Len(flashes(out.session)) <= MaxFlashes
    /\ request' = req
    /\ session' = out.session
    /\ response' = out.response
    /\ now' = t
    /\ UNCHANGED <<usersVars, rateVars, scriptVars, errVars, retryVars, raceVars>>

LoginGet ==
    \E t \in now..MaxClock :
        Serve(Req("GET", "/login", EmptyDict), login_get(session), t)

LoginPost ==
    \E t \in now..MaxClock, form \in Forms :
        Serve(Req("POST", "/login", form), login_post(session, form, t), t)

Profile ==
    \E t \in now..MaxClock :
        Serve(Req("GET", "/profile", EmptyDict), profile(session), t)

Logout ==
    \E t \in now..MaxClock :
        Serve(Req("GET", "/logout", EmptyDict), logout(session), t)

Protected ==
    \E t \in now..MaxClock :
        Serve(Req("GET", "/api/protected", EmptyDict), require_auth(session), t)

InitSession ==
    /\ session = EmptyDict
    /\ now = 0
    /\ request = NoRequest
    /\ response = NoResponse

NextSession == LoginGet \/ LoginPost \/ Profile \/ Logout \/ Protected

(***************************************************************************)
(* Properties of the session routes.  A step of SpecSession is one request *)
(* served: request' is the request, session the session it found, session' *)
(* the session it left and response' its answer.                           *)
(***************************************************************************)
LoggedIn(s) == "username" \in DOMAIN s

\* C3: GET /api/protected answers 401 'Authentication required' exactly when
\* the session it finds has no 'username' key, and protected_endpoint runs
\* (the response is its page, for the session's user) only when the key is
\* there; the session is left as found.
C3_ProtectedRequiresAuth ==
    [][request'.path = "/api/protected" =>
        /\ (response'.status = 401 /\ response'.error = "Authentication required")
              <=> ~LoggedIn(session)
        /\ response'.page = "protected" <=> LoggedIn(session)
        /\ response'.page = "protected" => response'.user = session["username"]
        /\ session' = session]_vars

C3_Witness ==
    /\ request.path = "/api/protected"
    /\ response.page = "protected"
    /\ response.user = "alice"
    /\ <<"info", "You have been logged out!">> \in
           {flashes(session)[i] : i \in 1..Len(flashes(session))}

\* C4: GET /profile redirects to login and renders nothing when the session
\* has no 'username' key, and renders the profile page, showing the
\* session's username, only when it has.
C4_ProfileRequiresLogin ==
    [][request'.path = "/profile" =>
        IF ~LoggedIn(session)
        THEN response'.status = 302 /\ response'.location = "login"
             /\ response'.page = ""
        ELSE response'.page = "profile" /\ response'.user = session["username"]
             /\ response'.location = ""]_vars

C4_Witness ==
    /\ request.path = "/profile"
    /\ response.page = "profile"
    /\ response.user = "bob"
    /\ Len(flashes(session)) >= 2

\* C5: GET /logout leaves neither 'username' nor 'login_time' in the session,
\* whatever it found; from then on only a successful POST /login (the one that
\* redirects to profile) puts either key back, and while 'username' is absent
\* GET /profile redirects to login and GET /api/protected answers 401.
C5_LogoutClearsSession ==
    [][/\ request'.path = "/logout" =>
            "username" \notin DOMAIN session' /\ "login_time" \notin DOMAIN session'
       /\ (\E k \in {"username", "login_time"} :
               k \notin DOMAIN session /\ k \in DOMAIN session') =>
            /\ request'.path = "/login" /\ request'.method = "POST"
            /\ response'.location = "profile"
       /\ (~LoggedIn(session) /\ request'.path = "/profile") =>
            response'.status = 302 /\ response'.location = "login"
       /\ (~LoggedIn(session) /\ request'.path = "/api/protected") =>
            response'.status = 401]_vars

C5_Witness ==
    /\ request.path = "/profile"
    /\ response.location = "login"
    /\ flashes(session) = << <<"success", "Login successful!">>,
                             <<"info", "You have been logged out!">>,
                             <<"error", "Please log in first!">> >>

\* C6 as stated: leaving aside the list flask.flash keeps under '_flashes',
\* 'username' is the only key the views put in the session.
C6_OnlyUsername == DOMAIN session \ {"_flashes"} \subseteq {"username"}

\* C6 as amended: the views put 'username' and 'login_time' in the session,
\* always both or neither, and nothing else but the '_flashes' list of
\* flask.flash.
C6_UsernameAndLoginTime ==
    /\ DOMAIN session \subseteq {"username", "login_time", "_flashes"}
    /\ "username" \in DOMAIN session <=> "login_time" \in DOMAIN session

C6_Witness ==
    /\ {"username", "login_time"} \subseteq DOMAIN session
    /\ session["login_time"] > 0

\* C7: POST /login sets session['username'] to the submitted username and
\* redirects to profile if and only if the form has a non-empty username and
\* a non-empty password (any values will do); otherwise it redirects to login
\* and leaves 'username' and 'login_time' as it found them.
C7_LoginAcceptsAnyCredentials ==
    [][(request'.path = "/login" /\ request'.method = "POST") =>
        LET form == request'.form
            given(k) == k \in DOMAIN form /\ form[k] # ""
        IN  IF given("username") /\ given("password")
            THEN /\ LoggedIn(session')
                 /\ session'["username"] = form["username"]
                 /\ response'.status = 302 /\ response'.location = "profile"
            ELSE /\ response'.status = 302 /\ response'.location = "login"
                 /\ \A k \in {"username", "login_time"} :
                        /\ k \in DOMAIN session' <=> k \in DOMAIN session
                        /\ k \in DOMAIN session => session'[k] = session[k]]_vars

C7_Witness ==
    /\ request.path = "/login" /\ request.method = "POST"
    /\ "username" \in DOMAIN request.form /\ request.form["username"] = "bob"
    /\ "password" \in DOMAIN request.form /\ request.form["password"] = ""
    /\ response.location = "login"
    /\ LoggedIn(session) /\ session["username"] = "alice"

(***************************************************************************)
(* The REST routes over users_db.                                          *)
(***************************************************************************)
User(id, name, email, age) == [id |-> id, name |-> name, email |-> email, age |-> age]

InitialUsers ==
    << User(1, "Alice Johnson", "alice@example.com", 28),
       User(2, "Bob Smith", "bob@example.com", 32),
       User(3, "Charlie Brown", "charlie@example.com", 25) >>

(***************************************************************************)
(* request.get_json(): the parsed JSON body.  It is None for the body      *)
(* `null`, a dict for a JSON object and a list for a JSON array.           *)
(***************************************************************************)
Json(kind, fields, items) == [kind |-> kind, fields |-> fields, items |-> items]

JsonNone == Json("none", EmptyDict, << >>)

JsonValue(k) ==
    CASE k = "name" -> "Dana"
      [] k = "email" -> "dana@example.com"
      [] k = "age" -> 41
      [] k = "id" -> 7

JsonObject(S) == Json("object", [k \in S |-> JsonValue(k)], << >>)

JsonArray(items) == Json("array", EmptyDict, items)

\* the bodies sent to POST /api/users
CreateBodies ==
    {JsonNone, JsonObject({}), JsonObject({"name"}), JsonObject({"email"}),
     JsonObject({"name", "email"}), JsonObject({"name", "email", "age"}),
     JsonArray(<< >>), JsonArray(<<"name">>), JsonArray(<<"name", "email">>)}

\* the bodies sent to PUT /api/users/<id>
UpdateBodies ==
    {JsonNone, JsonObject({}), JsonObject({"age", "id"}),
     JsonObject({"name", "email", "age"}), JsonArray(<<"name", "email">>)}

\* `not data`: None, {} and [] are falsy
Falsy(data) ==
    \/ data.kind = "none"
    \/ data.kind = "object" /\ DOMAIN data.fields = {}
    \/ data.kind = "array" /\ data.items = << >>

\* `k in data`: a key of a dict, an element of a list
Contains(data, k) ==
    \/ data.kind = "object" /\ k \in DOMAIN data.fields
    \/ data.kind = "array" /\ \E i \in 1..Len(data.items) : data.items[i] = k

ApiResp(status, error, message, users) ==
    [status |-> status, error |-> error, message |-> message, users |-> users]

NoApiResponse == ApiResp(0, "", "", << >>)

\* jsonify({'error': message}), status
api_error(message, status) == ApiResp(status, message, "", << >>)

\* an exception escapes the view: Flask answers 500 (internal_error)
internal_error == ApiResp(500, "Internal server error", "", << >>)

ApiOut(db, r) == [users_db |-> db, response |-> r]

\* next((u for u in users_db if u['id'] == user_id), None): the position of
\* the first match of a scan from the front, 0 for None
RECURSIVE Scan(_, _, _)
Scan(db, user_id, i) ==
    IF i > Len(db) THEN 0
    ELSE IF db[i].id = user_id THEN i
    ELSE Scan(db, user_id, i + 1)

FindUser(db, user_id) == Scan(db, user_id, 1)

\* max([u['id'] for u in users_db]) + 1 if users_db else 1
RECURSIVE MaxUserId(_)
MaxUserId(db) ==
    IF Len(db) = 1 THEN db[1].id
    ELSE LET m == MaxUserId(Tail(db)) IN IF db[1].id > m THEN db[1].id ELSE m

NextId(db) == IF db # << >> THEN MaxUserId(db) + 1 ELSE 1

get_users(db) == ApiOut(db, ApiResp(200, "", "", db))

\* a lookup that takes the id for a position in the list
get_user_by_position(db, user_id) ==
    IF user_id \in 1..Len(db)
    THEN ApiOut(db, ApiResp(200, "", "", <<db[user_id]>>))
    ELSE ApiOut(db, api_error("User not found", 404))

get_user(db, user_id) ==
    LET i == FindUser(db, user_id) IN
    IF i # 0
    THEN ApiOut(db, ApiResp(200, "", "", <<db[i]>>))
    ELSE ApiOut(db, api_error("User not found", 404))

create_user(db, data) ==
    IF Falsy(data) \/ ~Contains(data, "name") \/ ~Contains(data, "email")
    THEN ApiOut(db, api_error("Name and email are required", 400))
    ELSE IF data.kind # "object"
    THEN ApiOut(db, internal_error)       \* data['name'] of a list: TypeError
    ELSE LET new_user == User(NextId(db), data.fields["name"], data.fields["email"],
                              DictGet(data.fields, "age", 0))
         IN ApiOut(Append(db, new_user), ApiResp(201, "", "", <<new_user>>))

\* an update without the filter on the keys: user.update(data)
UserUpdateAnyKey(user, fields) ==
    User(DictGet(fields, "id", user.id),
         DictGet(fields, "name", user.name),
         DictGet(fields, "email", user.email),
         DictGet(fields, "age", user.age))

\* user.update({k: v for k, v in data.items() if k in ['name', 'email', 'age']})
UserUpdate(user, fields) ==
    User(user.id,
         DictGet(fields, "name", user.name),
         DictGet(fields, "email", user.email),
         DictGet(fields, "age", user.age))

update_user(db, user_id, data) ==
    LET i == FindUser(db, user_id) IN
    IF i = 0
    THEN ApiOut(db, api_error("User not found", 404))
    ELSE IF Falsy(data)
    THEN ApiOut(db, api_error("No data provided", 400))
    ELSE IF data.kind # "object"
    THEN ApiOut(db, internal_error)       \* data.items() of a list: AttributeError
    ELSE LET user == UserUpdate(db[i], data.fields)
         IN ApiOut([db EXCEPT ![i] = user], ApiResp(200, "", "", <<user>>))

\* a delete without the 404 check
delete_user_unchecked(db, user_id) ==
    ApiOut(SelectSeq(db, LAMBDA u : u.id # user_id),
           ApiResp(200, "", "User deleted successfully", << >>))

delete_user(db, user_id) ==
    IF FindUser(db, user_id) = 0
    THEN ApiOut(db, api_error("User not found", 404))
    ELSE ApiOut(SelectSeq(db, LAMBDA u : u.id # user_id),
                ApiResp(200, "", "User deleted successfully", << >>))

(***************************************************************************)
(* Requests of the REST routes.  <int:user_id> matches the non-negative    *)
(* integers.                                                               *)
(***************************************************************************)
ApiReq(method, path, user_id, json) ==
    [method |-> method, path |-> path, user_id |-> user_id, json |-> json]

NoApiRequest == ApiReq("", "", 0, JsonNone)

UserIds == 0..MaxId

ApiServe(req, out) ==
    /\ api_request' = req
    /\ users_db' = out.users_db
    /\ api_response' = out.response
    /\ UNCHANGED <<sessionVars, rateVars, scriptVars, errVars, retryVars, raceVars>>

GetUsers ==
    ApiServe(ApiReq("GET", "/api/users", 0, JsonNone), get_users(users_db))

GetUser ==
    \E user_id \in UserIds :
        ApiServe(ApiReq("GET", "/api/users/<int:user_id>", user_id, JsonNone),
                 get_user(users_db, user_id))

CreateUser ==
    \E data \in CreateBodies :
        /\ NextId(users_db) <= MaxId
        /\ ApiServe(ApiReq("POST", "/api/users", 0, data), create_user(users_db, data))

UpdateUser ==
    \E user_id \in UserIds, data \in UpdateBodies :
        ApiServe(ApiReq("PUT", "/api/users/<int:user_id>", user_id, data),
                 update_user(users_db, user_id, data))

DeleteUser ==
    \E user_id \in UserIds :
        ApiServe(ApiReq("DELETE", "/api/users/<int:user_id>", user_id, JsonNone),
                 delete_user(users_db, user_id))

InitUsers ==
    /\ users_db = InitialUsers
    /\ api_request = NoApiRequest
    /\ api_response = NoApiResponse

NextUsers == GetUsers \/ GetUser \/ CreateUser \/ UpdateUser \/ DeleteUser

(***************************************************************************)
(* Properties of the REST routes.  A step of SpecUsers is one request      *)
(* served: api_request' is the request, users_db the table it found,       *)
(* users_db' the table it left and api_response' its answer.               *)
(***************************************************************************)
\* the positions of the records of db with this id
Matches(db, user_id) == {i \in 1..Len(db) : db[i].id = user_id}

\* C8: GET /api/users/<id> answers 200 with the first record whose 'id' is
\* the id when there is one and 404 'User not found' otherwise, and leaves
\* users_db as it found it.
C8_GetUserLinearScan ==
    [][(api_request'.method = "GET" /\ api_request'.path = "/api/users/<int:user_id>") =>
        LET m == Matches(users_db, api_request'.user_id) IN
        /\ users_db' = users_db
        /\ IF m # {}
           THEN /\ api_response'.status = 200
                /\ \E i \in m :
                       /\ \A j \in m : i <= j
                       /\ api_response'.users = <<users_db[i]>>
           ELSE /\ api_response'.status = 404
                /\ api_response'.error = "User not found"]_vars

C8_Witness ==
    /\ api_request.method = "GET" /\ api_request.user_id = 3
    /\ api_response.status = 200
    /\ Len(users_db) = 2 /\ users_db[2].id = 3
    /\ api_response.users = <<users_db[2]>>

\* C9: POST /api/users answers 400 'Name and email are required' and leaves
\* users_db alone when the body is missing or empty or has no 'name' or no
\* 'email' member; otherwise it appends one record with the body's name and
\* email (age 0 when the body has none) at the end of users_db, leaves the
\* records before it alone, and answers 201 with that record.
C9_CreateUserValidates ==
    [][api_request'.method = "POST" =>
        LET data == api_request'.json
            has(k) == data.kind = "object" /\ k \in DOMAIN data.fields
        IN  IF ~(has("name") /\ has("email"))
            THEN /\ api_response'.status = 400
                 /\ api_response'.error = "Name and email are required"
                 /\ users_db' = users_db
            ELSE /\ api_response'.status = 201
                 /\ Len(users_db') = Len(users_db) + 1
                 /\ SubSeq(users_db', 1, Len(users_db)) = users_db
                 /\ LET new == users_db'[Len(users_db')] IN
                        /\ new.name = data.fields["name"]
                        /\ new.email = data.fields["email"]
                        /\ new.age = IF has("age") THEN data.fields["age"] ELSE 0
                        /\ api_response'.users = <<new>>]_vars

\* C10: DELETE /api/users/<id>, when a record has the id, leaves users_db
\* without any record of that id and with every other record, unchanged and
\* in the same order; when none has it, it answers 404 'User not found' and
\* leaves users_db alone.
C10_DeleteUser ==
    [][api_request'.method = "DELETE" =>
        LET id == api_request'.user_id IN
        IF Matches(users_db, id) # {}
        THEN /\ Matches(users_db', id) = {}
             /\ users_db' = SelectSeq(users_db, LAMBDA u : u.id # id)
             /\ api_response'.status = 200
        ELSE /\ api_response'.status = 404
             /\ api_response'.error = "User not found"
             /\ users_db' = users_db]_vars

C10_Witness ==
    /\ api_request.method = "DELETE" /\ api_request.user_id = 2
    /\ api_response.status = 200
    /\ Len(users_db) = 3
    /\ users_db[1].id = 1 /\ users_db[2].id = 3 /\ users_db[3].id = 4

\* C11: PUT /api/users/<id> leaves, whatever the body, the number of records,
\* every record but the first one with that id, and that record's 'id' as
\* they were; an unknown id is answered 404 'User not found', also when the
\* body is empty or missing, and a known id with an empty or missing body
\* 400; users_db is unchanged in both cases.
C11_UpdateUserFrame ==
    [][api_request'.method = "PUT" =>
        LET id == api_request'.user_id
            data == api_request'.json
            m == Matches(users_db, id)
            empty == \/ data.kind = "none"
                     \/ data.kind = "object" /\ DOMAIN data.fields = {}
                     \/ data.kind = "array" /\ Len(data.items) = 0
        IN  /\ Len(users_db') = Len(users_db)
            /\ \A j \in 1..Len(users_db) :
                   /\ users_db'[j].id = users_db[j].id
                   /\ (\E i \in m : i < j) \/ j \notin m => users_db'[j] = users_db[j]
            /\ m = {} => /\ api_response'.status = 404
                         /\ api_response'.error = "User not found"
                         /\ users_db' = users_db
            /\ (m # {} /\ empty) => /\ api_response'.status = 400
                                    /\ users_db' = users_db]_vars

C11_Witness ==
    /\ api_request.method = "PUT" /\ api_request.user_id = 2
    /\ "id" \in DOMAIN api_request.json.fields
    /\ api_response.status = 200
    /\ Len(users_db) = 3
    /\ users_db[2].id = 2 /\ users_db[2].age = 41 /\ users_db[2].name = "Bob Smith"

(***************************************************************************)
(* Requests.py, section 18: RateLimitedClient.  Time is counted in whole   *)
(* seconds.  requests_per_second is the fraction num/den, so that          *)
(* 1.0 / requests_per_second is den/num seconds.                           *)
(***************************************************************************)
RequestsPerSecond == {<<1, 2>>, <<1, 1>>}   \* 0.5 (the script's client), 1 (the default)

\* __init__: self.min_interval = 1.0 / requests_per_second
Interval(rps) == rps[2] \div rps[1]

\* RateLimitedClient(requests_per_second) built when time.time() is in `times`
InitRate(times, rates) ==
    /\ clock \in times
    /\ min_interval \in {Interval(rps) : rps \in rates}
    /\ last_request_time = 0
    /\ rate_pc = "idle"
    /\ sleep_time = 0
    /\ sent = << >>

\* time_since_last = current_time - self.last_request_time
time_since_last(current_time, last) == current_time - last

\* the clock moves on between any two statements
Tick ==
    /\ clock < MaxTime
    /\ clock' = clock + 1
    /\ UNCHANGED <<min_interval, last_request_time, rate_pc, sleep_time, sent>>
    /\ UNCHANGED <<sessionVars, usersVars, scriptVars, errVars, retryVars, raceVars>>

\* make_request is entered: current_time = time.time() and the test of
\* `time_since_last < self.min_interval`
MakeRequest ==
    /\ rate_pc = "idle"
    /\ Len(sent) < MaxSent
    /\ IF time_since_last(clock, last_request_time) < min_interval
       THEN /\ sleep_time' = min_interval - time_since_last(clock, last_request_time)
            /\ rate_pc' = "sleep"
       ELSE /\ sleep_time' = 0
            /\ rate_pc' = "send"
    /\ UNCHANGED <<clock, min_interval, last_request_time, sent>>
    /\ UNCHANGED <<sessionVars, usersVars, scriptVars, errVars, retryVars, raceVars>>

\* time.sleep(sleep_time) returns after at least sleep_time
Sleep ==
    /\ rate_pc = "sleep"
    /\ \E t \in (clock + sleep_time)..MaxTime : clock' = t
    /\ rate_pc' = "send"
    /\ UNCHANGED <<min_interval, last_request_time, sleep_time, sent>>
    /\ UNCHANGED <<sessionVars, usersVars, scriptVars, errVars, retryVars, raceVars>>

\* requests.get(url, **kwargs) is entered: the request goes out
Send ==
    /\ rate_pc = "send"
    /\ sent' = Append(sent, clock)
    /\ rate_pc' = "inflight"
    /\ UNCHANGED <<clock, min_interval, last_request_time, sleep_time>>
    /\ UNCHANGED <<sessionVars, usersVars, scriptVars, errVars, retryVars, raceVars>>

\* a client that records the time the request went out, not the time read
\* after it returned
ReturnStartTime ==
    /\ rate_pc = "inflight"
    /\ last_request_time' = sent[Len(sent)]
    /\ rate_pc' = "idle"
    /\ UNCHANGED <<clock, min_interval, sleep_time, sent>>
    /\ UNCHANGED <<sessionVars, usersVars, scriptVars, errVars, retryVars, raceVars>>

\* requests.get returns a response: self.last_request_time = time.time()
Return ==
    /\ rate_pc = "inflight"
    /\ last_request_time' = clock
    /\ rate_pc' = "idle"
    /\ UNCHANGED <<clock, min_interval, sleep_time, sent>>
    /\ UNCHANGED <<sessionVars, usersVars, scriptVars, errVars, retryVars, raceVars>>

\* requests.get raises: the exception leaves make_request before line 502
Raise ==
    /\ rate_pc = "inflight"
    /\ rate_pc' = "idle"
    /\ UNCHANGED <<clock, min_interval, last_request_time, sleep_time, sent>>
    /\ UNCHANGED <<sessionVars, usersVars, scriptVars, errVars, retryVars, raceVars>>

NextRate == Tick \/ MakeRequest \/ Sleep \/ Send \/ Return \/ Raise

\* a request is on its way and was issued min_interval or more after the
\* last_request_time the previous completed call recorded
IssuedAfterInterval ==
    rate_pc = "inflight" => sent[Len(sent)] >= last_request_time + min_interval

\* C1: every request is issued no earlier than min_interval after the
\* last_request_time recorded by the previous completed call, and consecutive
\* requests of the client built with requests_per_second=0.5 are 2 seconds
\* apart or more.
C1_RequestsSpaced ==
    /\ IssuedAfterInterval
    /\ min_interval = Interval(<<1, 2>>) =>
           \A i \in 2..Len(sent) : sent[i] - sent[i - 1] >= 2

\* C17: no step of the client changes min_interval; last_request_time changes
\* only in the step in which a request returns, to the clock value read then,
\* so it never decreases; a call whose request raises leaves it unchanged.
C17_FixedInterval ==
    [][/\ min_interval' = min_interval
       /\ last_request_time' >= last_request_time
       /\ last_request_time' # last_request_time =>
              /\ rate_pc = "inflight" /\ rate_pc' = "idle"
              /\ last_request_time' = clock'
              /\ last_request_time' >= sent[Len(sent)]
       /\ Return => last_request_time' = clock'
       /\ Raise => last_request_time' = last_request_time]_vars

\* two requests went out: the first returned after the clock had moved on,
\* the second raised and left the recorded time of the first
C17_Witness ==
    /\ rate_pc = "idle"
    /\ Len(sent) = 2
    /\ sent[1] < last_request_time /\ last_request_time < sent[2]

(***************************************************************************)
(* Requests.py as a script: eighteen numbered sections run top to bottom,  *)
(* then CLEANUP.  Every HTTP call either returns or raises a               *)
(* requests.exceptions.RequestException.                                   *)
(***************************************************************************)
Sections == 1..LastSection

\* the number of HTTP calls a section makes when none of them raises
Calls(n) ==
    CASE n = 10 -> 2       \* session.post, session.get
      [] n = 11 -> 4       \* test_urls
      [] n = 16 -> 2       \* timeout_configs[:2]
      [] n = 17 -> 3       \* api.get, api.post, api.put
      [] n = 18 -> 3       \* urls
      [] OTHER -> 1

\* how a section guards its calls: "block" is one try around all of them
\* (a raise skips the rest of the block), "each" is a try per call (the loop
\* goes on), "none" is no try at all
Guard(n) ==
    CASE n \in {11, 16} -> "each"
      [] n = 18 -> "none"
      [] OTHER -> "block"

InitScript ==
    /\ section = 1
    /\ call = 1
    /\ errors = 0
    /\ ended = ""

\* where the script goes after call c of section n returned
AfterCall(n, c) ==
    IF c < Calls(n) THEN <<n, c + 1>> ELSE <<n + 1, 1>>

\* where the script goes after a RequestException was caught in section n
AfterExcept(n, c) ==
    IF Guard(n) = "each" THEN AfterCall(n, c) ELSE <<n + 1, 1>>

CallReturns ==
    /\ ended = ""
    /\ section \in Sections
    /\ section' = AfterCall(section, call)[1]
    /\ call' = AfterCall(section, call)[2]
    /\ UNCHANGED <<errors, ended>>
    /\ UNCHANGED <<sessionVars, usersVars, rateVars, errVars, retryVars, raceVars>>

\* the call raises inside a try: the except clause prints and the script goes on
CallRaisesCaught ==
    /\ ended = ""
    /\ section \in Sections
    /\ Guard(section) # "none"
    /\ section' = AfterExcept(section, call)[1]
    /\ call' = AfterExcept(section, call)[2]
    /\ errors' = errors + 1
    /\ UNCHANGED ended
    /\ UNCHANGED <<sessionVars, usersVars, rateVars, errVars, retryVars, raceVars>>

\* the call raises outside any try: the interpreter prints the traceback and exits
CallRaisesUncaught ==
    /\ ended = ""
    /\ section \in Sections
    /\ Guard(section) = "none"
    /\ ended' = "traceback"
    /\ UNCHANGED <<section, call, errors>>
    /\ UNCHANGED <<sessionVars, usersVars, rateVars, errVars, retryVars, raceVars>>

\* print("\n=== CLEANUP ===") and the os.remove block
Cleanup ==
    /\ ended = ""
    /\ section = LastSection + 1
    /\ ended' = "cleanup done"
    /\ UNCHANGED <<section, call, errors>>
    /\ UNCHANGED <<sessionVars, usersVars, rateVars, errVars, retryVars, raceVars>>

NextScript == CallReturns \/ CallRaisesCaught \/ CallRaisesUncaught \/ Cleanup

\* C2: no RequestException raised by an HTTP call leaves the script: the
\* script never ends in a traceback, so whichever calls fail it goes on to
\* the CLEANUP section.
C2_NoRequestExceptionEscapes == ended # "traceback"

(***************************************************************************)
(* Flask.py served as app.run() serves it, one thread for each request: a  *)
(* create_user request and a delete_user request in progress at the same   *)
(* time.  A thread can be switched out between any two bytecodes: between  *)
(* loading the global users_db and calling append on the loaded list, and  *)
(* between building the filtered list and binding the global to it.        *)
(***************************************************************************)
NoUser == User(0, "", "", 0)

InitRace ==
    /\ create_pc = "idle"
    /\ create_new_user = NoUser
    /\ list_ref = ""
    /\ detached = << >>
    /\ acked = {}
    /\ delete_pc = "idle"
    /\ delete_id = 0
    /\ filtered = << >>
    /\ deleted = {}

\* create_user up to the dict new_user, or to its 400 or 500 answer
CreateBuilds ==
    /\ create_pc = "idle"
    /\ NextId(users_db) <= MaxId
    /\ \E data \in CreateBodies :
           LET out == create_user(users_db, data) IN
           IF out.response.status = 201
           THEN /\ create_new_user' = out.response.users[1]
                /\ create_pc' = "built"
           ELSE /\ create_new_user' = NoUser
                /\ create_pc' = "idle"
    /\ UNCHANGED <<list_ref, detached, acked, delete_pc, delete_id, filtered, deleted>>
    /\ UNCHANGED <<sessionVars, usersVars, rateVars, scriptVars, errVars, retryVars>>

\* users_db.append(new_user), first half: the global users_db is loaded
CreateLoads ==
    /\ create_pc = "built"
    /\ list_ref' = "users_db"
    /\ create_pc' = "loaded"
    /\ UNCHANGED <<create_new_user, detached, acked, delete_pc, delete_id, filtered, deleted>>
    /\ UNCHANGED <<sessionVars, usersVars, rateVars, scriptVars, errVars, retryVars>>

\* users_db.append(new_user), second half: append on the loaded list, which
\* is the list users_db names or the one it named before it was rebound
CreateAppends ==
    /\ create_pc = "loaded"
    /\ IF list_ref = "users_db"
       THEN users_db' = Append(users_db, create_new_user) /\ detached' = detached
       ELSE detached' = Append(detached, create_new_user) /\ users_db' = users_db
    /\ create_pc' = "appended"
    /\ UNCHANGED <<api_request, api_response>>
    /\ UNCHANGED <<create_new_user, list_ref, acked, delete_pc, delete_id, filtered, deleted>>
    /\ UNCHANGED <<sessionVars, rateVars, scriptVars, errVars, retryVars>>

\* return jsonify(new_user), 201
CreateReturns ==
    /\ create_pc = "appended"
    /\ acked' = acked \cup {create_new_user.id}
    /\ create_pc' = "idle"
    /\ list_ref' = ""
    /\ detached' = << >>
    /\ UNCHANGED <<create_new_user, delete_pc, delete_id, filtered, deleted>>
    /\ UNCHANGED <<sessionVars, usersVars, rateVars, scriptVars, errVars, retryVars>>

\* delete_user up to the 404 test
DeleteFinds ==
    /\ delete_pc = "idle"
    /\ \E user_id \in UserIds :
           /\ delete_id' = user_id
           /\ deleted' = deleted \cup {user_id}
           /\ delete_pc' = IF FindUser(users_db, user_id) = 0 THEN "idle" ELSE "found"
    /\ UNCHANGED <<create_pc, create_new_user, list_ref, detached, acked, filtered>>
    /\ UNCHANGED <<sessionVars, usersVars, rateVars, scriptVars, errVars, retryVars>>

\* [u for u in users_db if u['id'] != user_id]: the new list is built
DeleteFilters ==
    /\ delete_pc = "found"
    /\ filtered' = SelectSeq(users_db, LAMBDA u : u.id # delete_id)
    /\ delete_pc' = "filtered"
    /\ UNCHANGED <<create_pc, create_new_user, list_ref, detached, acked, delete_id, deleted>>
    /\ UNCHANGED <<sessionVars, usersVars, rateVars, scriptVars, errVars, retryVars>>

\* users_db = ...: the global is bound to the new list, and the answer; a
\* list loaded before keeps the elements it had
DeleteRebinds ==
    /\ delete_pc = "filtered"
    /\ users_db' = filtered
    /\ IF list_ref = "users_db"
       THEN list_ref' = "detached" /\ detached' = users_db
       ELSE list_ref' = list_ref /\ detached' = detached
    /\ filtered' = << >>
    /\ delete_pc' = "idle"
    /\ UNCHANGED <<api_request, api_response>>
    /\ UNCHANGED <<create_pc, create_new_user, acked, delete_id, deleted>>
    /\ UNCHANGED <<sessionVars, rateVars, scriptVars, errVars, retryVars>>

NextRace ==
    \/ CreateBuilds
    \/ CreateLoads
    \/ CreateAppends
    \/ CreateReturns
    \/ DeleteFinds
    \/ DeleteFilters
    \/ DeleteRebinds

\* C18: when no request is in progress, every user whose creation was
\* answered with 201 and whose id no delete_user request named is in
\* users_db.
C18_NoAckedCreateLost ==
    (create_pc = "idle" /\ delete_pc = "idle") =>
        \A id \in acked \ deleted : FindUser(users_db, id) # 0

(***************************************************************************)
(* Requests.py, section 9: make_request_with_error_handling.  The outcome  *)
(* of requests.get is an exception of the requests library or a response;  *)
(* the function's result is the dict it returns or the exception that      *)
(* leaves it.                                                              *)
(***************************************************************************)
test_urls ==
    << "https://jsonplaceholder.typicode.com/posts/1",
       "https://httpbin.org/status/404",
       "https://httpbin.org/delay/10",
       "https://invalid-domain-that-does-not-exist.com" >>

\* the classes an exception is an instance of: its own and its base classes
\* (requests.exceptions; json and simplejson for the decoders)
Mro(exc) ==
    CASE exc = "HTTPError" -> {"HTTPError", "RequestException"}
      [] exc = "ConnectionError" -> {"ConnectionError", "RequestException"}
      [] exc = "ProxyError" -> {"ProxyError", "ConnectionError", "RequestException"}
      [] exc = "SSLError" -> {"SSLError", "ConnectionError", "RequestException"}
      [] exc = "Timeout" -> {"Timeout", "RequestException"}
      [] exc = "ConnectTimeout" ->
             {"ConnectTimeout", "ConnectionError", "Timeout", "RequestException"}
      [] exc = "ReadTimeout" -> {"ReadTimeout", "Timeout", "RequestException"}
      [] exc = "TooManyRedirects" -> {"TooManyRedirects", "RequestException"}
      [] exc = "ChunkedEncodingError" -> {"ChunkedEncodingError", "RequestException"}
      [] exc = "RetryError" -> {"RetryError", "RequestException"}
      [] exc = "requests.exceptions.JSONDecodeError" ->
             {"requests.exceptions.JSONDecodeError", "InvalidJSONError",
              "RequestException", "json.JSONDecodeError", "ValueError"}
      [] exc = "json.JSONDecodeError" -> {"json.JSONDecodeError", "ValueError"}
      [] exc = "simplejson.JSONDecodeError" ->
             {"simplejson.JSONDecodeError", "ValueError"}

\* what requests.get(url, timeout=5) raises when it raises
GetExceptions ==
    {"ConnectionError", "ProxyError", "SSLError", "Timeout", "ConnectTimeout",
     "ReadTimeout", "TooManyRedirects", "ChunkedEncodingError"}

\* what response.json() raises on a body that is not JSON: requests from
\* 2.27 on raises its own JSONDecodeError, an older requests the error of
\* the decoder it imported, simplejson when installed, else json
DecodeErrors ==
    {"requests.exceptions.JSONDecodeError", "json.JSONDecodeError",
     "simplejson.JSONDecodeError"}

StatusCodes == {200, 201, 304, 400, 404, 429, 500, 503}

ContentTypes == {"application/json", "application/json; charset=utf-8", "text/html", ""}

\* response.headers.get('content-type', '').startswith('application/json')
IsJson(content_type) ==
    content_type \in {"application/json", "application/json; charset=utf-8"}

GetRaised(exc) ==
    [kind |-> "raised", exc |-> exc, status_code |-> {}, content_type |-> "",
     decodes |-> FALSE, decode_error |-> ""]

GetResponse(status_code, content_type, decodes, decode_error) ==
    [kind |-> "response", exc |-> "", status_code |-> {status_code},
     content_type |-> content_type, decodes |-> decodes,
     decode_error |-> decode_error]

NoOutcome ==
    [kind |-> "none", exc |-> "", status_code |-> {}, content_type |-> "",
     decodes |-> FALSE, decode_error |-> ""]

Outcomes ==
    {GetRaised(exc) : exc \in GetExceptions}
    \cup {GetResponse(sc, ct, TRUE, "") : sc \in StatusCodes, ct \in ContentTypes}
    \cup {GetResponse(sc, ct, FALSE, e) :
              sc \in StatusCodes, ct \in ContentTypes, e \in DecodeErrors}

\* response.raise_for_status() raises HTTPError
raise_for_status(status_code) == 400 <= status_code /\ status_code < 600

\* bool(response): Response.__bool__ returns self.ok, which is False exactly
\* when raise_for_status() raises
ResponseBool(status_code) == ~raise_for_status(status_code)

\* a dict: its keys, and the values the callers look at; status_code is {}
\* for None or a missing key
Dict(keys, success, status_code, error_type, data) ==
    [kind |-> "dict", keys |-> keys, success |-> success,
     status_code |-> status_code, error_type |-> error_type, data |-> data,
     exc |-> ""]

\* no dict: the exception leaves the function
Propagates(exc) ==
    [kind |-> "raised", keys |-> {}, success |-> FALSE, status_code |-> {},
     error_type |-> "", data |-> "", exc |-> exc]

NoResult ==
    [kind |-> "none", keys |-> {}, success |-> FALSE, status_code |-> {},
     error_type |-> "", data |-> "", exc |-> ""]

\* the try block: the exception it raises, "" when it reaches the return
TryRaises(o) ==
    IF o.kind = "raised" THEN o.exc
    ELSE LET status_code == CHOOSE sc \in o.status_code : TRUE IN
         IF raise_for_status(status_code) THEN "HTTPError"
         ELSE IF IsJson(o.content_type) /\ ~o.decodes THEN o.decode_error
         ELSE ""

\* the except clauses, top to bottom
ExceptClauses ==
    << [class |-> "HTTPError", error_type |-> "HTTP Error"],
       [class |-> "ConnectionError", error_type |-> "Connection Error"],
       [class |-> "Timeout", error_type |-> "Timeout Error"],
       [class |-> "RequestException", error_type |-> "Request Error"],
       [class |-> "json.JSONDecodeError", error_type |-> "JSON Decode Error"] >>

\* the first except clause the exception is an instance of, 0 when none
Clause(exc) ==
    LET hits == {k \in 1..Len(ExceptClauses) : ExceptClauses[k].class \in Mro(exc)}
    IN  IF hits = {} THEN 0 ELSE CHOOSE k \in hits : \A j \in hits : k <= j

make_request_with_error_handling(o) ==
    LET exc == TryRaises(o) IN
    IF exc = ""
    THEN Dict({"success", "status_code", "data", "headers"}, TRUE, o.status_code,
              "", IF IsJson(o.content_type) THEN "response.json()" ELSE "response.text")
    ELSE IF Clause(exc) = 0 THEN Propagates(exc)
    ELSE IF ExceptClauses[Clause(exc)].class = "HTTPError"
         \* e.response.status_code if e.response else None
         THEN Dict({"success", "error_type", "status_code", "message"}, FALSE,
                   IF \A sc \in o.status_code : ResponseBool(sc)
                   THEN o.status_code ELSE {},
                   "HTTP Error", "")
    ELSE Dict({"success", "error_type", "message"}, FALSE, {},
              ExceptClauses[Clause(exc)].error_type, "")

InitErrors ==
    /\ url = ""
    /\ get_outcome = NoOutcome
    /\ result = NoResult

\* result = make_request_with_error_handling(url)
MakeRequestWithErrorHandling ==
    /\ \E i \in 1..Len(test_urls) : url' = test_urls[i]
    /\ \E o \in Outcomes :
           /\ get_outcome' = o
           /\ result' = make_request_with_error_handling(o)
    /\ UNCHANGED <<sessionVars, usersVars, rateVars, scriptVars, retryVars, raceVars>>

NextErrors == MakeRequestWithErrorHandling

\* the response of the GET had an HTTP error status (4xx or 5xx)
HttpErrorStatus ==
    /\ get_outcome.kind = "response"
    /\ \A sc \in get_outcome.status_code : raise_for_status(sc)

\* C13: whatever the GET did, the function returned a dict: with 'success'
\* True and the keys 'status_code', 'data' and 'headers' when the GET got a
\* response whose status is not an error, and otherwise with 'success' False
\* and the keys 'error_type' and 'message'.
C13_AlwaysReturnsDict ==
    get_outcome.kind # "none" =>
        /\ result.kind = "dict"
        /\ IF get_outcome.kind = "response" /\ ~HttpErrorStatus
           THEN /\ result.success
                /\ {"status_code", "data", "headers"} \subseteq result.keys
           ELSE /\ ~result.success
                /\ {"error_type", "message"} \subseteq result.keys

\* C14: after a response with an HTTP error status the result has 'success'
\* False, error_type 'HTTP Error' and 'status_code' equal to the status code
\* of that response.
C14_HttpErrorStatusCode ==
    HttpErrorStatus =>
        /\ result.kind = "dict"
        /\ ~result.success
        /\ result.error_type = "HTTP Error"
        /\ "status_code" \in result.keys
        /\ result.status_code = get_outcome.status_code

\* C15: every GET that failed with an exception that is a Timeout, a
\* ConnectTimeout included, is reported with error_type 'Timeout Error'.
C15_TimeoutReported ==
    (get_outcome.kind = "raised" /\ "Timeout" \in Mro(get_outcome.exc)) =>
        /\ result.kind = "dict"
        /\ result.error_type = "Timeout Error"

(***************************************************************************)
(* Requests.py, section 12: the session of create_session_with_retries.    *)
(* Its HTTPAdapter hands every request to urllib3 with the Retry object    *)
(* of lines 259-264; urllib3 asks that object after every attempt whether  *)
(* to send the request again.                                              *)
(***************************************************************************)
total == 3

status_forcelist == {429, 500, 502, 503, 504}

method_whitelist == {"HEAD", "GET", "OPTIONS"}

\* Retry is built with respect_retry_after_header left at its default, True:
\* these are the statuses whose Retry-After header urllib3 then honours
RETRY_AFTER_STATUS_CODES == {413, 429, 503}

Methods == {"GET", "HEAD", "POST"}

ServerStatuses == {200, 404, 413, 429, 500, 502, 503, 504}

Answer(kind, status_code, retry_after) ==
    [kind |-> kind, status_code |-> status_code, retry_after |-> retry_after]

\* the attempt ended with a response
Responses == {Answer("response", {sc}, ra) : sc \in ServerStatuses, ra \in BOOLEAN}

\* Retry._is_method_retryable
is_method_retryable(m) == m \in method_whitelist

\* a Retry that asks for a retry whatever the method is
is_retry_any_method(m, left, status_code, has_retry_after) ==
    \/ status_code \in status_forcelist
    \/ left # 0 /\ has_retry_after /\ status_code \in RETRY_AFTER_STATUS_CODES

\* Retry.is_retry(method, status_code, has_retry_after), asked of a Retry
\* object with `left` retries left
is_retry(m, left, status_code, has_retry_after) ==
    /\ is_method_retryable(m)
    /\ \/ status_code \in status_forcelist
       \/ left # 0 /\ has_retry_after /\ status_code \in RETRY_AFTER_STATUS_CODES

\* a Retry that gives up one attempt later
is_exhausted_late(left) == left < -1

\* Retry.is_exhausted, asked by Retry.increment of the decremented object
is_exhausted(left) == left < 0

InitRetry ==
    /\ retry_session = ""
    /\ retry_method = ""
    /\ remaining = total
    /\ attempts = 0
    /\ answers = << >>
    /\ retry_pc = "idle"
    /\ raised = ""

\* retry_session = create_session_with_retries(): urllib3 before 2.0 builds
\* the Retry object; urllib3 2.0 and later has no method_whitelist parameter
\* and Retry(...) raises TypeError, which ends the script
CreateSessionWithRetries ==
    /\ retry_session = ""
    /\ retry_session' \in {"session", "TypeError"}
    /\ UNCHANGED <<retry_method, remaining, attempts, answers, retry_pc, raised>>
    /\ UNCHANGED <<sessionVars, usersVars, rateVars, scriptVars, errVars, raceVars>>

\* retry_session.request(m, url): the first attempt goes out
SessionRequest ==
    /\ retry_session = "session"
    /\ retry_pc \in {"idle", "returned", "raised"}
    /\ \E m \in Methods : retry_method' = m
    /\ remaining' = total
    /\ attempts' = 1
    /\ answers' = << >>
    /\ retry_pc' = "inflight"
    /\ raised' = ""
    /\ UNCHANGED retry_session
    /\ UNCHANGED <<sessionVars, usersVars, rateVars, scriptVars, errVars, raceVars>>

\* the server answers the attempt with a status: urllib3 returns the
\* response, or takes one retry off and sleeps before the next attempt, or,
\* with none left, raises MaxRetryError, which requests raises as RetryError
ServerAnswers ==
    /\ retry_pc = "inflight"
    /\ \E a \in Responses :
           /\ answers' = Append(answers, a)
           /\ IF \E sc \in a.status_code : is_retry(retry_method, remaining, sc, a.retry_after)
              THEN /\ remaining' = remaining - 1
                   /\ IF is_exhausted(remaining - 1)
                      THEN retry_pc' = "raised" /\ raised' = "RetryError"
                      ELSE retry_pc' = "backoff" /\ raised' = ""
              ELSE /\ remaining' = remaining
                   /\ retry_pc' = "returned"
                   /\ raised' = ""
    /\ UNCHANGED <<retry_session, retry_method, attempts>>
    /\ UNCHANGED <<sessionVars, usersVars, rateVars, scriptVars, errVars, raceVars>>

\* the connection cannot be made: retried for every method until no retry
\* is left, then raised by requests as ConnectionError
ConnectFails ==
    /\ retry_pc = "inflight"
    /\ answers' = Append(answers, Answer("connect error", {}, FALSE))
    /\ remaining' = remaining - 1
    /\ IF is_exhausted(remaining - 1)
       THEN retry_pc' = "raised" /\ raised' = "ConnectionError"
       ELSE retry_pc' = "backoff" /\ raised' = ""
    /\ UNCHANGED <<retry_session, retry_method, attempts>>
    /\ UNCHANGED <<sessionVars, usersVars, rateVars, scriptVars, errVars, raceVars>>

\* the request went out and reading the response fails or times out: raised
\* at once for a method outside the whitelist, retried for the others
ReadFails ==
    /\ retry_pc = "inflight"
    /\ answers' = Append(answers, Answer("read error", {}, FALSE))
    /\ IF ~is_method_retryable(retry_method)
       THEN /\ remaining' = remaining
            /\ retry_pc' = "raised" /\ raised' = "ConnectionError"
       ELSE /\ remaining' = remaining - 1
            /\ IF is_exhausted(remaining - 1)
               THEN retry_pc' = "raised" /\ raised' = "ConnectionError"
               ELSE retry_pc' = "backoff" /\ raised' = ""
    /\ UNCHANGED <<retry_session, retry_method, attempts>>
    /\ UNCHANGED <<sessionVars, usersVars, rateVars, scriptVars, errVars, raceVars>>

\* the sleep of Retry.sleep() is over: the request is sent again
Resend ==
    /\ retry_pc = "backoff"
    /\ attempts' = attempts + 1
    /\ retry_pc' = "inflight"
    /\ UNCHANGED <<retry_session, retry_method, remaining, answers, raised>>
    /\ UNCHANGED <<sessionVars, usersVars, rateVars, scriptVars, errVars, raceVars>>

NextRetry ==
    \/ CreateSessionWithRetries
    \/ SessionRequest
    \/ ServerAnswers
    \/ ConnectFails
    \/ ReadFails
    \/ Resend

\* the request is a GET and every attempt so far was answered with one of
\* the statuses 429, 500, 502, 503, 504
AlwaysFailing ==
    /\ retry_method = "GET"
    /\ \A i \in 1..Len(answers) :
           /\ answers[i].kind = "response"
           /\ answers[i].status_code \subseteq {429, 500, 502, 503, 504}

\* the call through the session is over
CallOver == retry_pc \in {"returned", "raised"}

\* C12: no request through the retry session is sent more than 1 + 3 times;
\* a GET that is answered every time with a status in {429, 500, 502, 503,
\* 504} is sent again until it has gone out 1 + 3 times and then ends by
\* raising a RequestException (RetryError), never by returning a response;
\* and every call through the session comes to an end.
C12_BoundedRetries ==
    /\ [](attempts <= 1 + 3)
    /\ [](AlwaysFailing =>
             /\ retry_pc # "returned"
             /\ Len(answers) < 1 + 3 => retry_pc # "raised"
             /\ Len(answers) = 1 + 3 =>
                    /\ attempts = 1 + 3
                    /\ retry_pc = "raised"
                    /\ "RequestException" \in Mro(raised))
    /\ (retry_pc = "inflight" ~> CallOver)

\* a GET was answered 500, 503, 429 and 502 and ended in RetryError
C12_Witness ==
    /\ AlwaysFailing
    /\ attempts = 4
    /\ Len(answers) = 4
    /\ answers[1].status_code = {500} /\ answers[4].status_code = {502}
    /\ retry_pc = "raised"
    /\ raised = "RetryError"

\* the i-th attempt of the request was answered with a status and the
\* request was sent, or is about to be sent, again because of it
ResentForStatus(i) ==
    /\ answers[i].kind = "response"
    /\ i < attempts \/ retry_pc = "backoff"

\* C16: a request through the retry session is sent again because of a
\* response status only if its method is HEAD, GET or OPTIONS and the status
\* is one of 429, 500, 502, 503, 504.
C16_OnlyConfigured ==
    \A i \in 1..Len(answers) :
        ResentForStatus(i) =>
            /\ retry_method \in {"HEAD", "GET", "OPTIONS"}
            /\ answers[i].status_code \subseteq {429, 500, 502, 503, 504}

\* C16, amended: a request through the retry session is sent again because
\* of a response status only if its method is HEAD, GET or OPTIONS and the
\* status is one of 429, 500, 502, 503, 504, or is 413 on a response that
\* carries a Retry-After header.
C16_ConfiguredOrRetryAfter ==
    \A i \in 1..Len(answers) :
        ResentForStatus(i) =>
            /\ retry_method \in {"HEAD", "GET", "OPTIONS"}
            /\ \/ answers[i].status_code \subseteq {429, 500, 502, 503, 504}
               \/ answers[i].status_code = {413} /\ answers[i].retry_after

\* a POST was answered 500 and the response was returned after one attempt
C16_Witness ==
    /\ retry_method = "POST"
    /\ Len(answers) = 1
    /\ answers[1].kind = "response" /\ answers[1].status_code = {500}
    /\ attempts = 1
    /\ retry_pc = "returned"

(***************************************************************************)
(* The specifications.                                                     *)
(***************************************************************************)
\* the script's own client: RateLimitedClient(requests_per_second=0.5)
InitScriptClient == InitRate({0}, {<<1, 2>>})

\* every part as its module leaves it when loaded
Init ==
    /\ InitSession /\ InitUsers /\ InitScriptClient /\ InitScript /\ InitErrors
    /\ InitRetry /\ InitRace

\* the same with a client of either rate, built at any time
InitAnyClient ==
    /\ InitSession /\ InitUsers /\ InitScript /\ InitErrors /\ InitRetry /\ InitRace
    /\ InitRate(0..MaxTime, RequestsPerSecond)

SpecSession == Init /\ [][NextSession]_vars

SpecUsers == Init /\ [][NextUsers]_vars

SpecRate == InitAnyClient /\ [][NextRate]_vars

SpecScript == Init /\ [][NextScript]_vars

SpecRace == Init /\ [][NextRace]_vars

SpecErrors == Init /\ [][NextErrors]_vars

SpecRetry == Init /\ [][NextRetry]_vars

\* every attempt ends, by timeout=10 at the latest, and every sleep between
\* two attempts ends
SpecRetryFair ==
    /\ SpecRetry
    /\ WF_vars(ServerAnswers \/ ConnectFails \/ ReadFails)
    /\ WF_vars(Resend)

====
